---- MODULE Spec2Model ----
(***************************************************************************)
(* DocMind (Docmind_app.py): a Streamlit retrieval-augmented chat.         *)
(* A text is a sequence of one-character strings.  A chunk is a record     *)
(* [title, content].  A chat message is a record [role, content].          *)
(* Dot-product scores (floats in the program) are integers here.           *)
(***************************************************************************)
EXTENDS Integers, Sequences, FiniteSets, TLC

VARIABLES
    \* ---- the session (st.session_state, widgets, the script's locals)
    uploaded_files,   \* st.file_uploader's value: a sequence of files
    documents,        \* the script's `documents` list, rebuilt on every run
    messages,         \* st.session_state.messages
    pc,               \* position of the chat-turn handler
    prompt,           \* the submitted chat input
    search_query,     \* rewrite_query's result
    scores,           \* np.dot(query_embed, doc_embed) per document, this search
    best_idx,         \* position in documents of best_doc (0: None)
    best_match,       \* find_best_match's result
    full_messages,    \* the message list sent to the answer call
    response_text,    \* the answer call's text
    \* ---- history variables (observations, not program state)
    turn_messages,    \* messages when the current turn started
    turn_documents,   \* documents when the current turn started
    answered,         \* <<prompt, answer>> of the Answered turns since Clear
    n_rewrite,        \* rewrite steps in the current turn
    n_search,         \* searches in the current turn
    n_generate,       \* answer-generator invocations in the current turn
    n_calls,          \* external text-generation calls in the current turn
    search_arg,       \* the query find_best_match was called with
    aborted,          \* an earlier turn of the session was aborted
    turns,            \* turns started so far
    \* ---- the ingestion loop on its own
    ing_pc,           \* position in lines 104-114
    ing_k,            \* files of the upload processed so far
    \* ---- the chunker on its own
    text,             \* process_text's input text
    filename,         \* process_text's input label
    chunks,           \* process_text's result
    done              \* process_text has run

vars == <<uploaded_files, documents, messages, pc, prompt, search_query, scores,
          best_idx, best_match, full_messages, response_text, turn_messages,
          turn_documents, answered, n_rewrite, n_search, n_generate, n_calls,
          search_arg, aborted, turns, ing_pc, ing_k, text, filename, chunks, done>>

sessionVars == <<uploaded_files, documents, messages, pc, prompt, search_query,
                 scores, best_idx, best_match, full_messages, response_text,
                 turn_messages, turn_documents, answered, n_rewrite, n_search,
                 n_generate, n_calls, search_arg, aborted, turns>>

ingestVars == <<ing_pc, ing_k>>

chunkerVars == <<text, filename, chunks, done>>

----------------------------------------------------------------------------
\* Bounds of the model.
MaxParts == 3      \* pieces concatenated into an input text of the chunker
MaxFiles == 3      \* files in one upload
MaxTurns == 3      \* chat turns in one session

\* Python's None for a string; None for a document (an optional document is a
\* sequence of at most one chunk); a raised exception in place of a text or reply.
None == "None"
NoDoc == <<>>
Error == <<"Error">>

----------------------------------------------------------------------------
\* Text helpers.

Rep(c, n) == [i \in 1..n |-> c]

NL == "\n"
SP == " "

\* str.strip(): characters removed at both ends.
IsSpace(c) == c \in {" ", "\n", "\t", "\r"}

\* the positions of s that hold a character strip() keeps at an end
Kept(s) == {i \in 1..Len(s) : ~IsSpace(s[i])}

Least(S) == CHOOSE m \in S : \A k \in S : m <= k
Greatest(S) == CHOOSE m \in S : \A k \in S : k <= m

LStrip(s) ==
    IF Kept(s) = {} THEN <<>> ELSE SubSeq(s, Least(Kept(s)), Len(s))

RStrip(s) ==
    IF Kept(s) = {} THEN <<>> ELSE SubSeq(s, 1, Greatest(Kept(s)))

Strip(s) == RStrip(LStrip(s))

\* text.split('\n\n'): left-to-right, non-overlapping; always at least one part.
\* The positions at or after i where a separator starts:
Separators(s, i) == {k \in i..(Len(s) - 1) : s[k] = NL /\ s[k + 1] = NL}

\* the parts of s from position i on, cut at the first separator each time
RECURSIVE SplitFrom(_, _)
SplitFrom(s, i) ==
    IF Separators(s, i) = {} THEN <<SubSeq(s, i, Len(s))>>
    ELSE LET k == Least(Separators(s, i))
         IN  <<SubSeq(s, i, k - 1)>> \o SplitFrom(s, k + 2)

Split(s) == SplitFrom(s, 1)

----------------------------------------------------------------------------
\* process_text

MinLength == 20

\* f"{filename} - Section {i+1}"
Title(name, n) == <<name, " - Section ", n>>

\* variants: the threshold taken inclusively; the length taken before trimming
Qualifies_inclusive(p) == Len(Strip(p)) >= MinLength
Qualifies_untrimmed(p) == Len(p) > MinLength

Qualifies(p) == Len(Strip(p)) > MinLength

\* the loop `for i, p in enumerate(paragraphs)`; i is 0-based
RECURSIVE ProcessLoop(_, _, _, _)
ProcessLoop(paragraphs, i, name, acc) ==
    IF i >= Len(paragraphs) THEN acc
    ELSE LET p == paragraphs[i + 1]
         IN  ProcessLoop(paragraphs, i + 1, name,
                 IF Qualifies(p)
                 THEN Append(acc, [title |-> Title(name, i + 1), content |-> Strip(p)])
                 ELSE acc)

process_text(t, name) == ProcessLoop(Split(t), 0, name, <<>>)

----------------------------------------------------------------------------
\* The chunker's inputs: texts made of up to MaxParts pieces.

W20 == Rep("x", MinLength)
W21 == Rep("y", MinLength + 1)

Pieces == {<<NL, NL>>, <<NL>>, <<SP>>, W20, W21}

RECURSIVE Concat(_)
Concat(ss) == IF ss = <<>> THEN <<>> ELSE Head(ss) \o Concat(Tail(ss))

Texts == {Concat(ps) : ps \in UNION {[1..n -> Pieces] : n \in 0..MaxParts}}

Labels == {<<"a", ".txt">>, <<"b", ".pdf">>}

----------------------------------------------------------------------------
\* process_file.  A file is [name, pages, data]: name is <<stem, extension>>,
\* pages[k] is what page k's extract_text() gives (a text, or Error when it
\* raises), data is what read().decode("utf-8") gives (a text, or Error).

EndsWithPdf(name) == name[2] = ".pdf"

\* variant: an error keeps the pages extracted so far
RECURSIVE ExtractPages_keeping(_, _, _)
ExtractPages_keeping(pages, k, acc) ==
    IF k > Len(pages) THEN acc
    ELSE IF pages[k] = Error THEN acc
         ELSE ExtractPages_keeping(pages, k + 1, acc \o pages[k] \o <<NL, NL>>)

\* the loop `for page in reader.pages: text += page.extract_text() + "\n\n"`
RECURSIVE ExtractPages(_, _, _)
ExtractPages(pages, k, acc) ==
    IF k > Len(pages) THEN acc
    ELSE IF pages[k] = Error THEN Error
         ELSE ExtractPages(pages, k + 1, acc \o pages[k] \o <<NL, NL>>)

\* the body of the try block up to the text; Error when it raises
ExtractText(f) ==
    IF EndsWithPdf(f.name) THEN ExtractPages(f.pages, 1, <<>>) ELSE f.data

process_file(f) ==
    LET t == ExtractText(f)
    IN  IF t = Error THEN <<>> ELSE process_text(t, f.name)

\* lines 104-114: the documents list of one script run
\* lines 108-109
ExtendStep(docs, f) == docs \o process_file(f)

RECURSIVE ExtendAll(_, _, _)
ExtendAll(files, k, docs) ==
    IF k > Len(files) THEN docs
    ELSE ExtendAll(files, k + 1, ExtendStep(docs, files[k]))

DemoContent ==
    <<"M", "e", "a", "l", "s", " ", "c", "o", "v", "e", "r", "e", "d", " ", "u",
      "p", " ", "t", "o", " ", "$", "5", "0", "/", "d", "a", "y", ".", " ", "H",
      "o", "t", "e", "l", "s", " ", "u", "p", " ", "t", "o", " ", "$", "2", "0",
      "0", "/", "n", "i", "g", "h", "t", ".">>

DemoDocuments == <<[title |-> <<"Demo: Travel">>, content |-> DemoContent]>>

BuildDocuments(files) ==
    IF files # <<>> THEN ExtendAll(files, 1, <<>>) ELSE DemoDocuments

\* The files a user may upload.
Z22 == Rep("z", MinLength + 2)

TxtGood ==
    [name |-> <<"a", ".txt">>, pages |-> <<>>,
     data |-> <<SP>> \o W20 \o <<NL, NL>> \o W21 \o <<NL, NL, NL>> \o Z22 \o <<NL>>]
TxtBad ==
    [name |-> <<"c", ".txt">>, pages |-> <<>>, data |-> Error]
PdfPartial ==
    [name |-> <<"b", ".pdf">>, pages |-> <<Z22, Error>>, data |-> <<>>]
PdfGood ==
    [name |-> <<"d", ".pdf">>, pages |-> <<W20 \o <<SP>>, <<SP>> \o Z22>>, data |-> <<>>]

Files == {TxtGood, TxtBad, PdfPartial, PdfGood}

Uploads == UNION {[1..n -> Files] : n \in 0..MaxFiles}

\* The uploads tried in a chat session.
SessionUploads ==
    {<<>>, <<TxtBad>>, <<PdfPartial, TxtGood>>, <<TxtGood, PdfGood>>}

----------------------------------------------------------------------------
\* find_best_match.  sc[k] is np.dot(query_embed, doc_embed) of documents[k].

\* the loop `for doc in documents`; best is the position of best_doc (0: None)
RECURSIVE BestLoop(_, _, _, _)
BestLoop(sc, k, best, highest_score) ==
    IF k > Len(sc) THEN best
    ELSE IF sc[k] > highest_score
         THEN BestLoop(sc, k + 1, k, sc[k])
         ELSE BestLoop(sc, k + 1, best, highest_score)

BestIndex(docs, sc) ==
    IF docs = <<>> THEN 0 ELSE BestLoop(sc, 1, 0, -1)

find_best_match(query, docs, sc) ==
    LET k == BestIndex(docs, sc)
    IN  IF k = 0 THEN NoDoc ELSE <<docs[k]>>

\* The scores a search may see: the embedding is a function of the content, so
\* documents with equal content score equally.
Scores == {-1, 0, 1}

ScoreVectors(docs) ==
    {sc \in [1..Len(docs) -> Scores] :
        \A i, j \in 1..Len(docs) : docs[i].content = docs[j].content => sc[i] = sc[j]}

----------------------------------------------------------------------------
\* rewrite_query.  reply is the outcome of client.chat.completions.create:
\* a text, or CallError when the call raises.  The result is the returned query
\* (CallError: the exception propagates) and the number of external calls made.

CallError == "CallError"

Prompts == {"q1", "q2"}
Replies == {"q1", "rw"}
Answers == {"a1", "a2"}

\* variant: the external call is made also with no history
rewrite_query_always_calling(user_input, chat_history, reply) ==
    [result |-> reply, calls |-> 1]

rewrite_query(user_input, chat_history, reply) ==
    IF chat_history = <<>>
    THEN [result |-> user_input, calls |-> 0]
    ELSE [result |-> reply, calls |-> 1]

----------------------------------------------------------------------------
\* The chat-turn handler, lines 124-176.

UserMsg(c) == [role |-> "user", content |-> c]
AssistantMsg(c) == [role |-> "assistant", content |-> c]

\* lines 140-157
SystemMsg(doc) ==
    [role |-> "system", content |-> <<"Source: ", doc.title, "Content: ", doc.content>>]

FullMessages(history, doc, p) ==
    <<SystemMsg(doc)>> \o history \o <<UserMsg(p)>>

\* variants: the history is replaced by the new turn; the rewritten query is
\* stored as the user's turn
SaveToHistory_replacing(history, p, q, r) ==
    <<UserMsg(p), AssistantMsg(r)>>
SaveToHistory_rewritten(history, p, q, r) ==
    Append(Append(history, UserMsg(q)), AssistantMsg(r))

\* lines 168-169
SaveToHistory(history, p, q, r) ==
    Append(Append(history, UserMsg(p)), AssistantMsg(r))

\* line 95
ClearHistory(history) == <<>>

\* The script's locals before the handler has assigned them.
NoLocals ==
    /\ prompt' = None
    /\ search_query' = None
    /\ scores' = <<>>
    /\ best_idx' = 0
    /\ best_match' = NoDoc
    /\ full_messages' = <<>>
    /\ response_text' = None
    /\ search_arg' = None
    /\ n_rewrite' = 0
    /\ n_search' = 0
    /\ n_generate' = 0
    /\ n_calls' = 0

\* The session after the first script run: credential entered, nothing
\* uploaded, no chat input yet.
SessionRest ==
    /\ messages = <<>>
    /\ pc = "Idle"
    /\ prompt = None
    /\ search_query = None
    /\ scores = <<>>
    /\ best_idx = 0
    /\ best_match = NoDoc
    /\ full_messages = <<>>
    /\ response_text = None
    /\ turn_messages = <<>>
    /\ turn_documents = BuildDocuments(<<>>)
    /\ answered = <<>>
    /\ n_rewrite = 0
    /\ n_search = 0
    /\ n_generate = 0
    /\ n_calls = 0
    /\ search_arg = None
    /\ aborted = FALSE
    /\ turns = 0

SessionInit ==
    /\ uploaded_files = <<>>
    /\ documents = BuildDocuments(<<>>)
    /\ SessionRest

IngestIdle ==
    /\ ing_pc = "done"
    /\ ing_k = 0

ChunkerIdle ==
    /\ text = <<>>
    /\ filename = <<"a", ".txt">>
    /\ chunks = <<>>
    /\ done = FALSE

Init == SessionInit /\ IngestIdle /\ ChunkerIdle

\* lines 93, 104-110: the uploader's value changes and the script reruns
Upload(fs) ==
    /\ pc = "Idle"
    /\ fs # uploaded_files
    /\ uploaded_files' = fs
    /\ documents' = BuildDocuments(fs)
    /\ turn_documents' = BuildDocuments(fs)
    /\ UNCHANGED <<messages, pc, prompt, search_query, scores, best_idx, best_match,
                   full_messages, response_text, turn_messages, answered, n_rewrite,
                   n_search, n_generate, n_calls, search_arg, aborted, turns>>
    /\ UNCHANGED <<ingestVars, chunkerVars>>

\* lines 94-96: the button, then st.rerun() runs the script again
Clear ==
    /\ pc = "Idle"
    /\ messages' = ClearHistory(messages)
    /\ turn_messages' = ClearHistory(messages)
    /\ answered' = <<>>
    /\ documents' = BuildDocuments(uploaded_files)
    /\ turn_documents' = BuildDocuments(uploaded_files)
    /\ UNCHANGED <<uploaded_files, pc, prompt, search_query, scores, best_idx,
                   best_match, full_messages, response_text, n_rewrite, n_search,
                   n_generate, n_calls, search_arg, aborted, turns>>
    /\ UNCHANGED <<ingestVars, chunkerVars>>

\* lines 104-125: a chat input arrives; the script reruns up to rewrite_query
Submit(p) ==
    /\ pc = "Idle"
    /\ turns < MaxTurns
    /\ turns' = turns + 1
    /\ prompt' = p
    /\ documents' = BuildDocuments(uploaded_files)
    /\ turn_documents' = documents
    /\ turn_messages' = messages
    /\ pc' = "RewritingQuery"
    /\ UNCHANGED <<uploaded_files, messages, search_query, scores, best_idx,
                   best_match, full_messages, response_text, answered, n_rewrite,
                   n_search, n_generate, n_calls, search_arg, aborted>>
    /\ UNCHANGED <<ingestVars, chunkerVars>>

\* line 132
Rewrite(reply) ==
    /\ pc = "RewritingQuery"
    /\ LET out == rewrite_query(prompt, messages, reply)
       IN  /\ n_calls' = n_calls + out.calls
           /\ IF out.result = CallError
              THEN /\ pc' = "Aborted"
                   /\ UNCHANGED search_query
              ELSE /\ pc' = "Searching"
                   /\ search_query' = out.result
    /\ n_rewrite' = n_rewrite + 1
    /\ UNCHANGED <<uploaded_files, documents, messages, prompt, scores, best_idx,
                   best_match, full_messages, response_text, turn_messages,
                   turn_documents, answered, n_search, n_generate, search_arg,
                   aborted, turns>>
    /\ UNCHANGED <<ingestVars, chunkerVars>>

\* variant: the search is given the raw prompt
Search_raw(sc) ==
    /\ pc = "Searching"
    /\ scores' = sc
    /\ best_idx' = BestIndex(documents, sc)
    /\ best_match' = find_best_match(prompt, documents, sc)
    /\ search_arg' = prompt
    /\ n_search' = n_search + 1
    /\ pc' = IF find_best_match(prompt, documents, sc) # NoDoc
             THEN "Found" ELSE "NotFound"
    /\ UNCHANGED <<uploaded_files, documents, messages, prompt, search_query,
                   full_messages, response_text, turn_messages, turn_documents,
                   answered, n_rewrite, n_generate, n_calls, aborted, turns>>
    /\ UNCHANGED <<ingestVars, chunkerVars>>

\* lines 136-138
Search(sc) ==
    /\ pc = "Searching"
    /\ scores' = sc
    /\ best_idx' = BestIndex(documents, sc)
    /\ best_match' = find_best_match(search_query, documents, sc)
    /\ search_arg' = search_query
    /\ n_search' = n_search + 1
    /\ pc' = IF find_best_match(search_query, documents, sc) # NoDoc
             THEN "Found" ELSE "NotFound"
    /\ UNCHANGED <<uploaded_files, documents, messages, prompt, search_query,
                   full_messages, response_text, turn_messages, turn_documents,
                   answered, n_rewrite, n_generate, n_calls, aborted, turns>>
    /\ UNCHANGED <<ingestVars, chunkerVars>>

\* variant: the user's turn is saved before the answer call
Generate_saving_first ==
    /\ pc = "Found"
    /\ full_messages' = FullMessages(messages, best_match[1], prompt)
    /\ n_generate' = n_generate + 1
    /\ n_calls' = n_calls + 1
    /\ pc' = "Generating"
    /\ messages' = Append(messages, UserMsg(prompt))
    /\ UNCHANGED <<uploaded_files, documents, prompt, search_query, scores,
                   best_idx, best_match, response_text, turn_messages, turn_documents,
                   answered, n_rewrite, n_search, search_arg, aborted, turns>>
    /\ UNCHANGED <<ingestVars, chunkerVars>>

\* lines 139-163: the answer call is issued
Generate ==
    /\ pc = "Found"
    /\ full_messages' = FullMessages(messages, best_match[1], prompt)
    /\ n_generate' = n_generate + 1
    /\ n_calls' = n_calls + 1
    /\ pc' = "Generating"
    /\ UNCHANGED <<uploaded_files, documents, messages, prompt, search_query, scores,
                   best_idx, best_match, response_text, turn_messages, turn_documents,
                   answered, n_rewrite, n_search, search_arg, aborted, turns>>
    /\ UNCHANGED <<ingestVars, chunkerVars>>

\* lines 165-172: the answer call returns
GenerateReturn(r) ==
    /\ pc = "Generating"
    /\ response_text' = r
    /\ messages' = SaveToHistory(messages, prompt, search_query, r)
    /\ answered' = Append(answered, <<prompt, r>>)
    /\ pc' = "Answered"
    /\ UNCHANGED <<uploaded_files, documents, prompt, search_query, scores, best_idx,
                   best_match, full_messages, turn_messages, turn_documents, n_rewrite,
                   n_search, n_generate, n_calls, search_arg, aborted, turns>>
    /\ UNCHANGED <<ingestVars, chunkerVars>>

\* line 159: the answer call raises
GenerateFail ==
    /\ pc = "Generating"
    /\ pc' = "Aborted"
    /\ UNCHANGED <<uploaded_files, documents, messages, prompt, search_query, scores,
                   best_idx, best_match, full_messages, response_text, turn_messages,
                   turn_documents, answered, n_rewrite, n_search, n_generate, n_calls,
                   search_arg, aborted, turns>>
    /\ UNCHANGED <<ingestVars, chunkerVars>>

\* variant: the declined question is recorded
Decline_recording ==
    /\ pc = "NotFound"
    /\ pc' = "Declined"
    /\ messages' = Append(messages, UserMsg(prompt))
    /\ UNCHANGED <<uploaded_files, documents, prompt, search_query, scores,
                   best_idx, best_match, full_messages, response_text, turn_messages,
                   turn_documents, answered, n_rewrite, n_search, n_generate, n_calls,
                   search_arg, aborted, turns>>
    /\ UNCHANGED <<ingestVars, chunkerVars>>

\* lines 174-176
Decline ==
    /\ pc = "NotFound"
    /\ pc' = "Declined"
    /\ UNCHANGED <<uploaded_files, documents, messages, prompt, search_query, scores,
                   best_idx, best_match, full_messages, response_text, turn_messages,
                   turn_documents, answered, n_rewrite, n_search, n_generate, n_calls,
                   search_arg, aborted, turns>>
    /\ UNCHANGED <<ingestVars, chunkerVars>>

\* the script run ends (normally, or with the exception shown); the session stays
EndTurn ==
    /\ pc \in {"Answered", "Declined", "Aborted"}
    /\ pc' = "Idle"
    /\ aborted' = (aborted \/ pc = "Aborted")
    /\ NoLocals
    /\ turn_messages' = messages
    /\ turn_documents' = documents
    /\ UNCHANGED <<uploaded_files, documents, messages, answered, turns>>
    /\ UNCHANGED <<ingestVars, chunkerVars>>

Next ==
    \/ \E fs \in SessionUploads : Upload(fs)
    \/ Clear
    \/ \E p \in Prompts : Submit(p)
    \/ \E reply \in Replies \cup {CallError} : Rewrite(reply)
    \/ \E sc \in ScoreVectors(documents) : Search(sc)
    \/ Generate
    \/ \E r \in Answers : GenerateReturn(r)
    \/ GenerateFail
    \/ Decline
    \/ EndTurn

Spec == Init /\ [][Next]_vars

----------------------------------------------------------------------------
\* The ingestion of one script run, file by file (lines 104-114), for any
\* upload of up to MaxFiles files.

IngestInit ==
    /\ SessionRest
    /\ uploaded_files \in Uploads
    /\ documents = <<>>
    /\ ing_pc = "start"
    /\ ing_k = 0
    /\ ChunkerIdle

\* line 105
IngestBegin ==
    /\ ing_pc = "start"
    /\ uploaded_files # <<>>
    /\ ing_pc' = "loop"
    /\ UNCHANGED <<sessionVars, ing_k, chunkerVars>>

\* lines 107-109, one file
IngestFile ==
    /\ ing_pc = "loop"
    /\ ing_k < Len(uploaded_files)
    /\ documents' = ExtendStep(documents, uploaded_files[ing_k + 1])
    /\ ing_k' = ing_k + 1
    /\ UNCHANGED <<uploaded_files, messages, pc, prompt, search_query, scores, best_idx,
                   best_match, full_messages, response_text, turn_messages,
                   turn_documents, answered, n_rewrite, n_search, n_generate, n_calls,
                   search_arg, aborted, turns, ing_pc, chunkerVars>>

\* line 110
IngestEnd ==
    /\ ing_pc = "loop"
    /\ ing_k = Len(uploaded_files)
    /\ ing_pc' = "done"
    /\ UNCHANGED <<sessionVars, ing_k, chunkerVars>>

\* lines 111-114
UseDemo ==
    /\ ing_pc = "start"
    /\ uploaded_files = <<>>
    /\ documents' = DemoDocuments
    /\ ing_pc' = "done"
    /\ UNCHANGED <<uploaded_files, messages, pc, prompt, search_query, scores, best_idx,
                   best_match, full_messages, response_text, turn_messages,
                   turn_documents, answered, n_rewrite, n_search, n_generate, n_calls,
                   search_arg, aborted, turns, ing_k, chunkerVars>>

IngestNext == IngestBegin \/ IngestFile \/ IngestEnd \/ UseDemo

IngestSpec == IngestInit /\ [][IngestNext]_vars

----------------------------------------------------------------------------
\* The chunker on its own: process_text applied to one input.

ChunkInit ==
    /\ SessionInit
    /\ IngestIdle
    /\ text \in Texts
    /\ filename \in Labels
    /\ chunks = <<>>
    /\ done = FALSE

ProcessText ==
    /\ ~done
    /\ chunks' = process_text(text, filename)
    /\ done' = TRUE
    /\ UNCHANGED <<text, filename>>
    /\ UNCHANGED <<sessionVars, ingestVars>>

ChunkNext == ProcessText

ChunkSpec == ChunkInit /\ [][ChunkNext]_vars

----------------------------------------------------------------------------
\* Properties.

IsPrefix(s, t) == Len(s) <= Len(t) /\ SubSeq(t, 1, Len(s)) = s

InTurn == pc # "Idle"
TurnEnded == pc \in {"Answered", "Declined", "Aborted"}
Searched == n_search = 1

MaxScore(sc) == CHOOSE m \in {sc[k] : k \in 1..Len(sc)} : \A k \in 1..Len(sc) : sc[k] <= m

\* C1: on a non-empty DocumentSet, whatever the scores, find_best_match returns
\* a chunk (never none), its score is the maximum over all chunks, and among
\* the chunks attaining the maximum it is the earliest in insertion order.
C1_BestMatchIsFirstMaximum ==
    (Searched /\ documents # <<>>) =>
        /\ best_match # NoDoc
        /\ best_idx \in 1..Len(documents)
        /\ best_match = <<documents[best_idx]>>
        /\ scores[best_idx] = MaxScore(scores)
        /\ \A j \in 1..(best_idx - 1) : scores[j] < scores[best_idx]

\* C2 as stated: with an empty DocumentSet every turn, whatever the Transcript,
\* ends in Declined with search having returned none, the Answer Generator
\* never invoked and the Transcript as before the turn.
C2_EmptySetAlwaysDeclined ==
    (TurnEnded /\ documents = <<>>) =>
        /\ pc = "Declined"
        /\ Searched /\ best_match = NoDoc
        /\ n_generate = 0
        /\ messages = turn_messages

\* C2 amended: with an empty DocumentSet the Answer Generator is never invoked
\* and the Transcript stays as before the turn; a search that runs returns none
\* and the turn ends in Declined; the only other ending is an abort by a failed
\* rewrite call, before search, which needs a non-empty Transcript.
C2_EmptySetDeclinedOrRewriteAborted ==
    (InTurn /\ documents = <<>>) =>
        /\ pc \in {"RewritingQuery", "Searching", "NotFound", "Declined", "Aborted"}
        /\ n_generate = 0
        /\ messages = turn_messages
        /\ Searched => (best_match = NoDoc /\ best_idx = 0 /\ pc \in {"NotFound", "Declined"})
        /\ pc = "Aborted" => (n_search = 0 /\ n_calls = 1 /\ turn_messages # <<>>)
        /\ (TurnEnded /\ turn_messages = <<>>) => pc = "Declined"

C2_Witness ==
    pc = "Declined" /\ documents = <<>> /\ messages # <<>> /\ search_query = "rw"

\* C3: every step other than Clear Chat History leaves the previous Transcript
\* a prefix of the new one; so the Transcript empties only through Clear.
C3_AppendOnlyExceptClear ==
    [][Clear \/ IsPrefix(messages, messages')]_vars

C3_Witness ==
    pc = "Answered" /\ Len(turn_messages) = 2 /\ Len(messages) = 4

\* C4: when the external call fails in the rewrite or the generate step, the
\* turn is aborted with Transcript and DocumentSet as before the turn, the
\* session returns to Idle with both unchanged, and a next turn can start.
C4_AbortKeepsSession ==
    [][ /\ pc' = "Aborted" =>
             /\ pc \in {"RewritingQuery", "Generating"}
             /\ messages' = turn_messages'
             /\ documents' = turn_documents'
             /\ uploaded_files' = uploaded_files
        /\ pc = "Aborted" =>
             /\ pc' = "Idle"
             /\ messages' = messages
             /\ documents' = documents
             /\ uploaded_files' = uploaded_files
             /\ aborted'
        /\ (pc = "Idle" /\ aborted /\ pc' # "Idle") =>
             /\ pc' = "RewritingQuery"
             /\ messages' = messages
             /\ documents' = documents ]_vars

C4_Witness ==
    pc = "Answered" /\ aborted /\ n_calls = 2

\* C5: process_text returns one chunk per paragraph of the blank-line split
\* whose trimmed length exceeds 20, in source order, with the trimmed paragraph
\* as content and the paragraph's 1-based position in the split in its title;
\* the empty text gives no chunk.
Qualifying == {k \in 1..Len(Split(text)) : Len(Strip(Split(text)[k])) > 20}

Nth(S, i) == CHOOSE k \in S : Cardinality({j \in S : j <= k}) = i

RECURSIVE JoinBlank(_)
JoinBlank(ps) ==
    IF Len(ps) = 1 THEN ps[1] ELSE ps[1] \o <<"\n", "\n">> \o JoinBlank(Tail(ps))

C5_ChunksAreQualifyingParagraphs ==
    done =>
        /\ JoinBlank(Split(text)) = text
        /\ Len(chunks) = Cardinality(Qualifying)
        /\ \A i \in 1..Len(chunks) :
              /\ chunks[i].content = Strip(Split(text)[Nth(Qualifying, i)])
              /\ chunks[i].title = <<filename, " - Section ", Nth(Qualifying, i)>>
        /\ text = <<>> => chunks = <<>>

C5_Witness ==
    done /\ Len(chunks) = 1 /\ chunks[1].title[3] = 2 /\ Len(Split(text)) = 2

\* C6: every chunk of the DocumentSet has content longer than 20 characters,
\* and the content is trimmed.
C6_StoredChunksAboveThreshold ==
    \A k \in 1..Len(documents) :
        /\ Len(documents[k].content) > 20
        /\ Strip(documents[k].content) = documents[k].content

C6_Witness ==
    /\ Len(uploaded_files) = 2
    /\ uploaded_files[1] = TxtGood
    /\ Len(documents) = 3

\* C7: a file whose extraction raises contributes no chunk, also when pages
\* of it had been extracted; the DocumentSet of an upload is the concatenation,
\* in upload order, of the chunks of the files read without error.
Raises(f) ==
    IF f.name[2] = ".pdf"
    THEN \E k \in 1..Len(f.pages) : f.pages[k] = Error
    ELSE f.data = Error

ReadText(f) ==
    IF f.name[2] = ".pdf"
    THEN Concat([k \in 1..Len(f.pages) |-> f.pages[k] \o <<"\n", "\n">>])
    ELSE f.data

C7_FailedFilesContributeNothing ==
    /\ ing_pc \in {"loop", "done"} /\ uploaded_files # <<>> =>
          documents = Concat([k \in 1..ing_k |->
                                IF Raises(uploaded_files[k]) THEN <<>>
                                ELSE process_text(ReadText(uploaded_files[k]),
                                                  uploaded_files[k].name)])
    /\ ing_pc = "done" => ing_k = Len(uploaded_files)

C7_Witness ==
    /\ ing_pc = "done"
    /\ Len(uploaded_files) = 3
    /\ uploaded_files[1] = PdfPartial
    /\ uploaded_files[2] = TxtBad
    /\ uploaded_files[3] = TxtGood
    /\ Len(documents) = 2

\* C8: in a turn that starts with an empty Transcript the rewrite step makes
\* no external call and cannot fail, and the query given to search is the
\* user's query.
C8_EmptyHistoryKeepsQuery ==
    (InTurn /\ turn_messages = <<>> /\ n_rewrite = 1) =>
        /\ search_query = prompt
        /\ n_calls = n_generate
        /\ Searched => search_arg = prompt
        /\ pc = "Aborted" => n_generate = 1

C8_Witness ==
    Searched /\ turn_messages = <<>> /\ turns = 2 /\ search_arg = prompt

\* C9: the steps of a turn follow Idle -> RewritingQuery -> Searching ->
\* (Found -> Generating -> Answered | NotFound -> Declined) -> Idle, an external
\* failure ending the turn from RewritingQuery or Generating; search runs once,
\* after the rewrite, on the rewritten query; the generator runs once, after a
\* search that returned a chunk; the Transcript is appended to only when the
\* generation returns.
TurnOrder ==
    {<<"Idle", "Idle">>, <<"Idle", "RewritingQuery">>,
     <<"RewritingQuery", "Searching">>, <<"RewritingQuery", "Aborted">>,
     <<"Searching", "Found">>, <<"Searching", "NotFound">>,
     <<"Found", "Generating">>, <<"Generating", "Answered">>,
     <<"Generating", "Aborted">>, <<"NotFound", "Declined">>,
     <<"Answered", "Idle">>, <<"Declined", "Idle">>, <<"Aborted", "Idle">>}

RECURSIVE Pairs(_)
Pairs(log) ==
    IF log = <<>> THEN <<>>
    ELSE <<[role |-> "user", content |-> log[1][1]],
           [role |-> "assistant", content |-> log[1][2]]>> \o Pairs(Tail(log))

C10_TranscriptIsAnsweredTurns ==
    /\ messages = Pairs(answered)
    /\ Len(messages) % 2 = 0
    /\ \A k \in 1..Len(messages) :
          messages[k].role = (IF k % 2 = 1 THEN "user" ELSE "assistant")
    /\ pc \in {"RewritingQuery", "Searching", "Found", "NotFound", "Generating",
               "Declined", "Aborted"} => messages = turn_messages
    /\ pc = "Answered" =>
          messages = turn_messages \o <<[role |-> "user", content |-> prompt],
                                        [role |-> "assistant", content |-> response_text]>>

C10_Witness ==
    /\ pc = "Answered"
    /\ Len(messages) = 4
    /\ search_query # prompt
    /\ messages[3].content = prompt

====
